---- MODULE Spec2Model ----
(***************************************************************************)
(* A model of the PNG decoder of src/src/png.rs.  Image::read is modelled  *)
(* as a state machine over the input byte stream: the signature check, one *)
(* step per iteration of the chunk loop (Chunk::read and Chunk::from_raw), *)
(* the head of Image::from_chunks up to the call of the zlib decompressor, *)
(* one step per scanline start and per reconstructed byte of the defilter  *)
(* loop, and the slicing of the reconstructed bytes into pixels.           *)
(*                                                                         *)
(* Bytes are the integers 0..255.  A u32 is an integer where it is a       *)
(* length or a dimension and a tuple of 4 bytes (big-endian) where it is a *)
(* CRC.  u8 arithmetic is modelled with its width: an overflowing u8       *)
(* operation panics in a build with overflow checks and wraps modulo 256   *)
(* in a build without; the build is drawn in Init (overflow_checks).       *)
(* An out-of-bounds index panics in every build.                           *)
(*                                                                         *)
(* The zlib decompressor (flate2::read::ZlibDecoder) is outside the        *)
(* repository: its result on the buffer it is handed is drawn from         *)
(* InflateOutcomes when it is called, and recorded in zlib.                *)
(***************************************************************************)
EXTENDS Integers, Sequences, FiniteSets, TLC

VARIABLES
    stream,                 \* the input bytes (the Read the caller supplies)
    overflow_checks,        \* TRUE: the build panics on integer overflow
    pos,                    \* number of bytes of stream consumed so far
    state,                  \* where Image::read is
    err,                    \* the Error returned once state = "Failed"
    chunks,                 \* the VecDeque<Chunk> of Image::read
    ihdr,                   \* from_chunks: the header popped from chunks
    bytes_per_pixel,        \* from_chunks: pixel_type.bytes()
    idat_data_compressed,   \* from_chunks: the buffer handed to ZlibDecoder
    zlib,                   \* the decompressor's call record
    idat_data,              \* from_chunks: the inflated bytes
    i, r, c,                \* from_chunks: cursor in idat_data, row, column
    filter_type,            \* from_chunks: filter byte of the current row
    recon,                  \* from_chunks: the reconstructed bytes
    image                   \* the Image returned once state = "Done"

vars == <<stream, overflow_checks, pos, state, err, chunks, ihdr,
          bytes_per_pixel, idat_data_compressed, zlib, idat_data, i, r, c,
          filter_type, recon, image>>

(***************************************************************************)
(* Program constants                                                       *)
(***************************************************************************)
PNG_SIGNATURE == <<137, 80, 78, 71, 13, 10, 26, 10>>
ZLIB_COMPRESSION_METHOD == 0
TRUECOLOR == 2
TRUECOLOR_ALPHA == 6
FILTER_NONE == 0
FILTER_SUB == 1
FILTER_UP == 2
FILTER_AVG == 3
FILTER_PAETH == 4

TypeIHDR == <<73, 72, 68, 82>>
TypePLTE == <<80, 76, 84, 69>>
TypeIDAT == <<73, 68, 65, 84>>
TypeIEND == <<73, 69, 78, 68>>

ErrorKinds ==
    {"Io", "InvalidSignature", "InvalidStartingChunk", "Unimplemented",
     "InvalidIHDRLength", "InvalidPLTESize", "UnsupportedCompressionMethod",
     "InvalidFilterType", "MismatchedCrc"}

Byte == 0..255

(***************************************************************************)
(* Byte and u32 helpers                                                    *)
(***************************************************************************)
RECURSIVE BitXor(_, _)
BitXor(a, b) ==
    IF a = 0 THEN b
    ELSE IF b = 0 THEN a
    ELSE (((a % 2) + (b % 2)) % 2) + 2 * BitXor(a \div 2, b \div 2)

\* the xor of two bytes, tabulated
XorTable == [a \in Byte |-> [b \in Byte |-> BitXor(a, b)]]

Xor8(a, b) == XorTable[a][b]

Xor4(u, v) == <<Xor8(u[1], v[1]), Xor8(u[2], v[2]), Xor8(u[3], v[3]), Xor8(u[4], v[4])>>

Shr1(u) ==
    <<u[1] \div 2,
      (u[2] \div 2) + 128 * (u[1] % 2),
      (u[3] \div 2) + 128 * (u[2] % 2),
      (u[4] \div 2) + 128 * (u[3] % 2)>>

\* u32::from_be_bytes, for the values below 2^31 (first byte below 128)
FromBeBytes(b) == ((b[1] * 256 + b[2]) * 256 + b[3]) * 256 + b[4]

\* u32::to_be_bytes, for the values below 2^31
ToBeBytes(n) ==
    <<(n \div 16777216) % 256, (n \div 65536) % 256, (n \div 256) % 256, n % 256>>

Take(s, n) == SubSeq(s, 1, n)
Drop(s, n) == SubSeq(s, n + 1, Len(s))

(***************************************************************************)
(* flate2::Crc: the CRC-32 of zlib (reflected polynomial EDB88320), one    *)
(* table lookup per byte; a CRC value is its 4 big-endian bytes.           *)
(***************************************************************************)
CrcPoly == <<237, 184, 131, 32>>

RECURSIVE CrcShift(_, _)
CrcShift(crc, k) ==
    IF k = 0 THEN crc
    ELSE CrcShift(IF crc[4] % 2 = 1 THEN Xor4(Shr1(crc), CrcPoly) ELSE Shr1(crc),
                  k - 1)

CrcTable == [n \in Byte |-> CrcShift(<<0, 0, 0, n>>, 8)]

RECURSIVE CrcUpdate(_, _, _)
CrcUpdate(crc, bytes, k) ==
    IF k > Len(bytes) THEN crc
    ELSE CrcUpdate(Xor4(CrcTable[Xor8(crc[4], bytes[k])],
                        <<0, crc[1], crc[2], crc[3]>>),
                   bytes, k + 1)

\* hasher.update(type); hasher.update(data); hasher.sum()
CrcSum(type, data) ==
    Xor4(CrcUpdate(CrcUpdate(<<255, 255, 255, 255>>, type, 1), data, 1),
         <<255, 255, 255, 255>>)

(***************************************************************************)
(* Chunks                                                                  *)
(***************************************************************************)
NoIhdr ==
    [width |-> 0, height |-> 0, bit_depth |-> 0, colour_type |-> 0,
     compression_method |-> 0, filter_method |-> 0, interlace_method |-> 0]

\* enum Chunk: kind is the variant; the fields a variant lacks are empty
MkChunk(kind, hdr, entries, data) ==
    [kind |-> kind, ihdr |-> hdr, entries |-> entries, data |-> data]

NoChunk == MkChunk("None", NoIhdr, <<>>, <<>>)

\* Ihdr::from_data
IhdrFromData(data) ==
    IF Len(data) # 13
    THEN [err |-> "InvalidIHDRLength", ihdr |-> NoIhdr]
    ELSE [err |-> "None",
          ihdr |-> [width |-> FromBeBytes(SubSeq(data, 1, 4)),
                    height |-> FromBeBytes(SubSeq(data, 5, 8)),
                    bit_depth |-> data[9],
                    colour_type |-> data[10],
                    compression_method |-> data[11],
                    filter_method |-> data[12],
                    interlace_method |-> data[13]]]

\* Plte::from_data
PlteFromData(data) ==
    LET entry_count == Len(data) \div 3 IN
    IF Len(data) % 3 # 0 \/ entry_count < 1 \/ entry_count > 256
    THEN [err |-> "InvalidPLTESize", entries |-> <<>>]
    ELSE [err |-> "None",
          entries |-> [k \in 1..entry_count |->
                          <<data[3 * k - 2], data[3 * k - 1], data[3 * k]>>]]

\* a variant of the is_optional test without its upper bound
IsOptionalNoUpperBound(type_bytes) == type_bytes[1] >= 97

\* the is_optional test of Chunk::from_raw: b'a' <= type_bytes[0] <= b'z'
IsOptional(type_bytes) == type_bytes[1] >= 97 /\ type_bytes[1] <= 122

\* Chunk::from_raw: err = "None" and ~some is Ok(None)
ChunkFromRaw(type_bytes, data) ==
    IF type_bytes = TypeIHDR
    THEN LET h == IhdrFromData(data) IN
         [err |-> h.err, some |-> h.err = "None",
          chunk |-> MkChunk("Ihdr", h.ihdr, <<>>, <<>>)]
    ELSE IF type_bytes = TypePLTE
    THEN LET p == PlteFromData(data) IN
         [err |-> p.err, some |-> p.err = "None",
          chunk |-> MkChunk("Plte", NoIhdr, p.entries, <<>>)]
    ELSE IF type_bytes = TypeIDAT
    THEN [err |-> "None", some |-> TRUE,
          chunk |-> MkChunk("Idat", NoIhdr, <<>>, data)]
    ELSE IF type_bytes = TypeIEND
    THEN [err |-> "None", some |-> TRUE,
          chunk |-> MkChunk("Iend", NoIhdr, <<>>, <<>>)]
    ELSE IF IsOptional(type_bytes)
    THEN [err |-> "None", some |-> FALSE, chunk |-> NoChunk]
    ELSE [err |-> "Unimplemented", some |-> FALSE, chunk |-> NoChunk]

ReadFailed(e, p) == [err |-> e, some |-> FALSE, chunk |-> NoChunk, pos |-> p]

\* a variant of Chunk::read that dispatches on the type code first and
\* compares the CRC only of a chunk it keeps
ChunkReadDispatchFirst(s, p) ==
    IF Len(s) - p < 4 THEN ReadFailed("Io", p)
    ELSE LET length_bytes == SubSeq(s, p + 1, p + 4) IN
    IF Len(s) - (p + 4) < 4 THEN ReadFailed("Io", p)
    ELSE LET type == SubSeq(s, p + 5, p + 8) IN
    IF length_bytes[1] >= 128 \/ Len(s) - (p + 8) < FromBeBytes(length_bytes)
    THEN ReadFailed("Io", p)
    ELSE LET length == FromBeBytes(length_bytes)
             data == SubSeq(s, p + 9, p + 8 + length) IN
    IF Len(s) - (p + 8 + length) < 4 THEN ReadFailed("Io", p)
    ELSE LET crc_bytes == SubSeq(s, p + 9 + length, p + 12 + length)
             raw == ChunkFromRaw(type, data) IN
    IF raw.some /\ crc_bytes # CrcSum(type, data)
    THEN ReadFailed("MismatchedCrc", p + 12 + length)
    ELSE [err |-> raw.err, some |-> raw.some, chunk |-> raw.chunk,
          pos |-> p + 12 + length]

\* Chunk::read on stream s with p bytes consumed.  read_exact fails with an
\* io::Error when fewer bytes are left than asked for.  A length of 2^31 or
\* more (first length byte >= 128) exceeds every stream of the model.
ChunkRead(s, p) ==
    IF Len(s) - p < 4 THEN ReadFailed("Io", p)
    ELSE LET length_bytes == SubSeq(s, p + 1, p + 4) IN
    IF Len(s) - (p + 4) < 4 THEN ReadFailed("Io", p)
    ELSE LET type == SubSeq(s, p + 5, p + 8) IN
    IF length_bytes[1] >= 128 \/ Len(s) - (p + 8) < FromBeBytes(length_bytes)
    THEN ReadFailed("Io", p)
    ELSE LET length == FromBeBytes(length_bytes)
             data == SubSeq(s, p + 9, p + 8 + length) IN
    IF Len(s) - (p + 8 + length) < 4 THEN ReadFailed("Io", p)
    ELSE LET crc_bytes == SubSeq(s, p + 9 + length, p + 12 + length) IN
    IF crc_bytes = CrcSum(type, data)
    THEN LET raw == ChunkFromRaw(type, data) IN
         [err |-> raw.err, some |-> raw.some, chunk |-> raw.chunk,
          pos |-> p + 12 + length]
    ELSE ReadFailed("MismatchedCrc", p + 12 + length)

(***************************************************************************)
(* Image::from_chunks, up to the decompressor                              *)
(***************************************************************************)
\* a variant of the concatenation that puts each payload in front
RECURSIVE IdatConcatReversed(_)
IdatConcatReversed(chs) ==
    IF chs = <<>> THEN <<>>
    ELSE IdatConcatReversed(Tail(chs))
         \o (IF Head(chs).kind = "Idat" THEN Head(chs).data ELSE <<>>)

\* the filter_map(..).flatten().collect() over the remaining chunks
RECURSIVE IdatConcat(_)
IdatConcat(chs) ==
    IF chs = <<>> THEN <<>>
    ELSE (IF Head(chs).kind = "Idat" THEN Head(chs).data ELSE <<>>)
         \o IdatConcat(Tail(chs))

\* Ihdr::pixel_type followed by PixelType::bytes; 0 stands for Unimplemented
PixelTypeBytes(colour_type) ==
    IF colour_type = TRUECOLOR THEN 3
    ELSE IF colour_type = TRUECOLOR_ALPHA THEN 4
    ELSE 0

PixelTypeName(bpp) == IF bpp = 3 THEN "Rgb" ELSE IF bpp = 4 THEN "Rgba" ELSE "None"

\* a variant of the head of from_chunks that takes the first header
\* found, skipping the chunks before it
RECURSIVE FromChunksHeadFirstIhdr(_)
FromChunksHeadFirstIhdr(chs) ==
    IF chs = <<>>
    THEN [err |-> "InvalidStartingChunk", ihdr |-> NoIhdr,
          compressed |-> <<>>, bpp |-> 0]
    ELSE IF Head(chs).kind # "Ihdr" THEN FromChunksHeadFirstIhdr(Tail(chs))
    ELSE LET hdr == Head(chs).ihdr
             rest == Tail(chs)
             after_plte == IF rest # <<>> /\ Head(rest).kind = "Plte"
                           THEN Tail(rest) ELSE rest
             compressed == IdatConcat(after_plte)
             bpp == PixelTypeBytes(hdr.colour_type)
         IN  [err |-> IF bpp = 0 THEN "Unimplemented"
                      ELSE IF hdr.compression_method # ZLIB_COMPRESSION_METHOD
                      THEN "UnsupportedCompressionMethod"
                      ELSE "None",
              ihdr |-> hdr, compressed |-> compressed, bpp |-> bpp]

\* from_chunks, lines 252-290, before ZlibDecoder is run: the header, the
\* optional palette right after it, the concatenated IDAT payloads, the
\* pixel type and the compression method
FromChunksHead(chs) ==
    IF chs = <<>> \/ Head(chs).kind # "Ihdr"
    THEN [err |-> "InvalidStartingChunk", ihdr |-> NoIhdr,
          compressed |-> <<>>, bpp |-> 0]
    ELSE LET hdr == Head(chs).ihdr
             rest == Tail(chs)
             after_plte == IF rest # <<>> /\ Head(rest).kind = "Plte"
                           THEN Tail(rest) ELSE rest
             compressed == IdatConcat(after_plte)
             bpp == PixelTypeBytes(hdr.colour_type)
         IN  [err |-> IF bpp = 0 THEN "Unimplemented"
                      ELSE IF hdr.compression_method # ZLIB_COMPRESSION_METHOD
                      THEN "UnsupportedCompressionMethod"
                      ELSE "None",
              ihdr |-> hdr, compressed |-> compressed, bpp |-> bpp]

(***************************************************************************)
(* The defilter engine                                                     *)
(***************************************************************************)
\* x + y on u8: panics with overflow checks, wraps without
Add8(x, y, checks) ==
    IF x + y > 255
    THEN [panic |-> checks, val |-> (x + y) % 256]
    ELSE [panic |-> FALSE, val |-> x + y]

\* x - y on u8: panics with overflow checks, wraps without
Sub8(x, y, checks) ==
    IF x < y
    THEN [panic |-> checks, val |-> (x - y) + 256]
    ELSE [panic |-> FALSE, val |-> x - y]

AbsDiff(x, y) == IF x >= y THEN x - y ELSE y - x

\* recon_a: rec is 1-based, the code's recon 0-based
ReconA(rec, stride, bpp, row, col) ==
    IF col >= bpp THEN rec[(row * stride + col - bpp) + 1] ELSE 0

\* recon_b
ReconB(rec, stride, row, col) ==
    IF row > 0 THEN rec[((row - 1) * stride + col) + 1] ELSE 0

\* recon_c
ReconC(rec, stride, bpp, row, col) ==
    IF row > 0 /\ col >= bpp THEN rec[((row - 1) * stride + col - bpp) + 1] ELSE 0

\* a variant of paeth_predictor with p = a + b - c in wide integers
PaethPredictorWide(a, b, cd, checks) ==
    LET p == a + b - cd
        pa == AbsDiff(p, a)
        pb == AbsDiff(p, b)
        pc == AbsDiff(p, cd)
    IN  [panic |-> FALSE,
         val |-> IF pa <= pb /\ pa <= pc THEN a
                 ELSE IF pb <= pc THEN b
                 ELSE cd]

\* paeth_predictor: let p = a + b - c in u8, then the nearest of a, b, c
PaethPredictor(a, b, cd, checks) ==
    LET ab == Add8(a, b, checks)
        p == Sub8(ab.val, cd, checks)
        pa == AbsDiff(p.val, a)
        pb == AbsDiff(p.val, b)
        pc == AbsDiff(p.val, cd)
    IN  [panic |-> ab.panic \/ p.panic,
         val |-> IF pa <= pb /\ pa <= pc THEN a
                 ELSE IF pb <= pc THEN b
                 ELSE cd]

\* (recon_a + recon_b) / 2 of the FILTER_AVG arm: the sum is a u8
AvgPredictor(a, b, checks) ==
    LET ab == Add8(a, b, checks) IN
    [panic |-> ab.panic, val |-> ab.val \div 2]

\* the match on filter_type, lines 304-321: kind is "Ok" (val is the byte
\* pushed), "Panic" or "Err" (InvalidFilterType)
ReconByte(ft, byte, a, b, cd, checks) ==
    IF ft = FILTER_NONE THEN [kind |-> "Ok", val |-> byte]
    ELSE IF ft \notin {FILTER_SUB, FILTER_UP, FILTER_AVG, FILTER_PAETH}
    THEN [kind |-> "Err", val |-> 0]
    ELSE LET pred == IF ft = FILTER_SUB THEN [panic |-> FALSE, val |-> a]
                     ELSE IF ft = FILTER_UP THEN [panic |-> FALSE, val |-> b]
                     ELSE IF ft = FILTER_AVG THEN AvgPredictor(a, b, checks)
                     ELSE PaethPredictor(a, b, cd, checks)
             sum == Add8(byte, pred.val, checks)
         IN  IF pred.panic \/ sum.panic
             THEN [kind |-> "Panic", val |-> 0]
             ELSE [kind |-> "Ok", val |-> sum.val]

\* where the row loop of line 296 goes with row rows done
AfterRow(hdr, row) == IF row < hdr.height THEN "DefilterRow" ELSE "Slicing"

\* lines 296-298 on the loop's locals l: the filter-type byte of row l.r
\* (an index past the end of idat_data panics), then the column loop's test
RowStep(l, data, hdr, bpp) ==
    IF l.i >= Len(data)
    THEN [l EXCEPT !.state = "Panicked"]
    ELSE [l EXCEPT !.filter_type = data[l.i + 1],
                   !.i = l.i + 1,
                   !.c = 0,
                   !.r = IF hdr.width * bpp > 0 THEN l.r ELSE l.r + 1,
                   !.state = IF hdr.width * bpp > 0 THEN "DefilterByte"
                             ELSE AfterRow(hdr, l.r + 1)]

\* lines 301-323 on the loop's locals l: the filtered byte, the match on
\* the filter type, the push, then the loops' tests
ByteStep(l, data, hdr, bpp, checks) ==
    IF l.i >= Len(data)
    THEN [l EXCEPT !.state = "Panicked"]
    ELSE LET stride == hdr.width * bpp
             rb == ReconByte(l.filter_type, data[l.i + 1],
                             ReconA(l.recon, stride, bpp, l.r, l.c),
                             ReconB(l.recon, stride, l.r, l.c),
                             ReconC(l.recon, stride, bpp, l.r, l.c),
                             checks)
         IN  IF rb.kind = "Err"
             THEN [l EXCEPT !.i = l.i + 1, !.state = "Failed",
                            !.err = "InvalidFilterType"]
             ELSE IF rb.kind = "Panic"
             THEN [l EXCEPT !.i = l.i + 1, !.state = "Panicked"]
             ELSE [l EXCEPT !.i = l.i + 1,
                            !.recon = Append(l.recon, rb.val),
                            !.c = l.c + 1,
                            !.r = IF l.c + 1 < stride THEN l.r ELSE l.r + 1,
                            !.state = IF l.c + 1 < stride THEN "DefilterByte"
                                      ELSE AfterRow(hdr, l.r + 1)]

\* the pixel loop, lines 327-348: one row of pixels per scanline, each
\* pixel bytes_per_pixel consecutive bytes of recon; an index past the end
\* of recon panics
SlicePanics(rec, hdr, bpp) ==
    \E y \in 0..(hdr.height - 1), x \in 0..(hdr.width - 1) :
        (y * (hdr.width * bpp) + x * bpp) + bpp > Len(rec)

SlicePixels(rec, hdr, bpp) ==
    [y \in 1..hdr.height |->
        [x \in 1..hdr.width |->
            SubSeq(rec, ((y - 1) * (hdr.width * bpp) + (x - 1) * bpp) + 1,
                        ((y - 1) * (hdr.width * bpp) + (x - 1) * bpp) + bpp)]]

NoImage == [width |-> 0, height |-> 0, pixel_type |-> "None", pixels |-> <<>>]

MkImage(rec, hdr, bpp) ==
    [width |-> hdr.width, height |-> hdr.height,
     pixel_type |-> PixelTypeName(bpp), pixels |-> SlicePixels(rec, hdr, bpp)]

(***************************************************************************)
(* The decompressor: ZlibDecoder::read_to_end either fails with an         *)
(* io::Error or appends the inflated bytes to idat_data.                   *)
(***************************************************************************)
InflateFails == [ok |-> FALSE, data |-> <<>>]
Inflated(d) == [ok |-> TRUE, data |-> d]
NotCalled == [called |-> FALSE, res |-> InflateFails]

(***************************************************************************)
(* Inputs.  A stream is the signature followed by chunks in the wire       *)
(* format Chunk::read consumes: length (4, big-endian), type (4), payload, *)
(* CRC-32 of type and payload (4, big-endian).                             *)
(***************************************************************************)
MaxChunks == 4

RECURSIVE Concat(_)
Concat(ss) == IF ss = <<>> THEN <<>> ELSE Head(ss) \o Concat(Tail(ss))

IhdrData(w, h, bd, ct, cm, fm, il) ==
    ToBeBytes(w) \o ToBeBytes(h) \o <<bd, ct, cm, fm, il>>

EncodeChunk(type, data) ==
    ToBeBytes(Len(data)) \o type \o data \o CrcSum(type, data)

\* an encoded chunk with one bit flipped after the CRC was computed: in
\* the last byte of the stored CRC, of the type code or of the payload, or
\* the case bit of the first byte of the type code
Damage(bytes, what) ==
    LET k == IF what = "crc" THEN Len(bytes)
             ELSE IF what = "type" THEN 8
             ELSE IF what = "case" THEN 5
             ELSE Len(bytes) - 4
    IN  [bytes EXCEPT ![k] = Xor8(bytes[k], IF what = "case" THEN 32 ELSE 1)]

TypeTEXT == <<116, 69, 88, 116>>     \* "tEXt": ancillary, not recognised
TypeCGBI == <<67, 103, 66, 73>>      \* "CgBI": critical, not recognised

Menu ==
    << EncodeChunk(TypeIHDR, IhdrData(1, 1, 8, TRUECOLOR, 0, 0, 0)),
       EncodeChunk(TypePLTE, <<1, 2, 3>>),
       EncodeChunk(TypeIDAT, <<1>>),
       EncodeChunk(TypeIDAT, <<2, 3>>),
       EncodeChunk(TypeIEND, <<>>),
       EncodeChunk(TypeTEXT, <<7>>),
       EncodeChunk(TypeCGBI, <<7>>) >>

Layouts == UNION {[1..n -> 1..Len(Menu)] : n \in 0..MaxChunks}

LayoutBytes(l) == Concat([k \in 1..Len(l) |-> Menu[l[k]]])

\* every sequence of at most MaxChunks chunks of the menu
LayoutStreams == {PNG_SIGNATURE \o LayoutBytes(l) : l \in Layouts}

\* the same with one chunk damaged, the chunks before it intact
DamagedAt(l, j, what) ==
    PNG_SIGNATURE
        \o LayoutBytes(SubSeq(l, 1, j - 1))
        \o Damage(Menu[l[j]], what)
        \o LayoutBytes(SubSeq(l, j + 1, Len(l)))

DamagedStreams ==
    UNION { {DamagedAt(l, j, what) :
                what \in {"crc", "type", "case", "data"}, j \in 1..Len(l)} :
            l \in {m \in Layouts : Len(m) < MaxChunks} }

\* chunks of other shapes, each alone between a header and the terminator
\* or in the place of the header
OddChunks ==
    { EncodeChunk(TypeIHDR, ToBeBytes(1) \o ToBeBytes(1) \o <<8, 2, 0, 0>>),
      EncodeChunk(TypePLTE, <<1, 2, 3, 4>>),
      EncodeChunk(TypePLTE, <<>>),
      EncodeChunk(TypeIDAT, <<>>),
      EncodeChunk(<<96, 69, 88, 116>>, <<>>),
      EncodeChunk(<<97, 69, 88, 116>>, <<>>),
      EncodeChunk(<<122, 69, 88, 116>>, <<7, 7>>),
      EncodeChunk(<<123, 69, 88, 116>>, <<>>),
      EncodeChunk(<<49, 69, 88, 116>>, <<>>),
      EncodeChunk(<<105, 68, 65, 84>>, <<1>>),
      EncodeChunk(<<73, 72, 68, 114>>, <<>>) }

OddStreams ==
    {PNG_SIGNATURE \o o \o Menu[3] \o Menu[5] : o \in OddChunks}
    \cup {PNG_SIGNATURE \o Menu[1] \o o \o Menu[3] \o Menu[5] : o \in OddChunks}
    \cup {PNG_SIGNATURE \o Menu[1] \o o1 \o o2 \o Menu[5] :
             o1 \in OddChunks, o2 \in OddChunks}

\* one compressed stream in one IDAT chunk, and split in two at every point
CompressedSample == <<9, 8, 7>>

SplitStreams ==
    {PNG_SIGNATURE \o Menu[1] \o EncodeChunk(TypeIDAT, CompressedSample) \o Menu[5]}
    \cup {PNG_SIGNATURE \o Menu[1]
             \o EncodeChunk(TypeIDAT, Take(CompressedSample, n))
             \o EncodeChunk(TypeIDAT, Drop(CompressedSample, n))
             \o Menu[5] : n \in 0..Len(CompressedSample)}

\* headers of other geometries and kinds, each in a complete file
Headers ==
    { IhdrData(w, h, 8, ct, 0, 0, 0) :
        w \in 0..2, h \in 0..2, ct \in {TRUECOLOR, TRUECOLOR_ALPHA} }
    \cup { IhdrData(1, 1, bd, TRUECOLOR, 0, 0, il) : bd \in {1, 8, 16}, il \in {0, 1} }
    \cup { IhdrData(1, 1, 8, ct, cm, fm, 0) :
             ct \in {0, 2, 3, 4, 6}, cm \in {0, 1}, fm \in {0, 1} }

HeaderStreams ==
    {PNG_SIGNATURE \o EncodeChunk(TypeIHDR, h) \o Menu[3] \o Menu[5] : h \in Headers}

\* every prefix of a complete file, and a complete file with one byte of
\* the signature altered
WholeFile == PNG_SIGNATURE \o Menu[1] \o Menu[2] \o Menu[3] \o Menu[5]

PrefixStreams == {Take(WholeFile, n) : n \in 0..Len(WholeFile)}

SignatureStreams ==
    {[WholeFile EXCEPT ![k] = Xor8(WholeFile[k], b)] : k \in 1..8, b \in {1, 128, 255}}

Streams ==
    LayoutStreams \cup DamagedStreams \cup OddStreams \cup SplitStreams
    \cup HeaderStreams \cup PrefixStreams \cup SignatureStreams

\* what the decompressor may return for a header: nothing, too little, and
\* scanlines of every filter type, valid or not
SmallScans ==
    { <<>>, <<0>>, <<5>>, <<0, 1, 2>>,
      <<0, 10, 20, 30>>, <<1, 200, 100, 50>>, <<2, 1, 2, 3>>,
      <<3, 255, 0, 1>>, <<4, 9, 8, 7>>, <<5, 1, 2, 3>>, <<255, 1, 2, 3>>,
      <<0, 1, 2, 3, 4>>, <<9, 1, 2, 3, 4>>,
      <<0, 1, 2, 3, 4, 5, 6>>, <<1, 1, 2, 3, 255, 255, 255>>,
      <<6, 1, 2, 3, 4, 5, 6>>,
      <<0, 1, 2, 3, 2, 255, 4, 5>>, <<0, 1, 2, 3, 7, 1, 2, 3>>,
      <<0, 1, 2, 3, 7>>, <<0, 5>>, <<0, 0>>, <<5, 5>> }

\* the bytes the predictors are tried on
ByteSamples == {0, 1, 2, 127, 128, 129, 254, 255}

\* two scanlines of two Rgb pixels: row 0 unfiltered, row 1 with filter ft;
\* the first channel of each pixel is drawn, the others are 0
Scans2x2 ==
    { <<FILTER_NONE, cd, 0, 0, b, 0, 0, ft, a, 0, 0, x, 0, 0>> :
        cd \in ByteSamples, b \in ByteSamples, a \in ByteSamples,
        x \in ByteSamples, ft \in {FILTER_AVG, FILTER_PAETH} }
    \cup { <<f0, 1, 2, 3, 4, 5, 6, ft, 250, 100, 3, 9, 200, 6>> :
             f0 \in 0..4, ft \in 0..5 }

InflateOutcomes(hdr) ==
    {InflateFails}
    \cup {Inflated(d) : d \in IF hdr.width = 2 /\ hdr.height = 2 /\ hdr.colour_type = TRUECOLOR
                               THEN Scans2x2 ELSE SmallScans}

(***************************************************************************)
(* Image::read                                                             *)
(***************************************************************************)
Init ==
    /\ stream \in Streams
    /\ overflow_checks \in BOOLEAN
    /\ pos = 0
    /\ state = "AwaitingSignature"
    /\ err = "None"
    /\ chunks = <<>>
    /\ ihdr = NoIhdr
    /\ bytes_per_pixel = 0
    /\ idat_data_compressed = <<>>
    /\ zlib = NotCalled
    /\ idat_data = <<>>
    /\ i = 0
    /\ r = 0
    /\ c = 0
    /\ filter_type = 0
    /\ recon = <<>>
    /\ image = NoImage

Fail(e) == state' = "Failed" /\ err' = e

Panic == state' = "Panicked" /\ err' = "None"

\* a variant of the signature check that compares the first 4 bytes only
ReadSignatureFirstFour ==
    /\ state = "AwaitingSignature"
    /\ IF Len(stream) < 8
       THEN Fail("Io") /\ pos' = pos
       ELSE IF Take(stream, 4) # Take(PNG_SIGNATURE, 4)
       THEN Fail("InvalidSignature") /\ pos' = 8
       ELSE state' = "ReadingChunks" /\ err' = err /\ pos' = 8
    /\ UNCHANGED <<stream, overflow_checks, chunks, ihdr, bytes_per_pixel,
                   idat_data_compressed, zlib, idat_data, i, r, c,
                   filter_type, recon, image>>

\* lines 359-364: read_exact of 8 bytes, then the comparison
ReadSignature ==
    /\ state = "AwaitingSignature"
    /\ IF Len(stream) < 8
       THEN Fail("Io") /\ pos' = pos
       ELSE IF Take(stream, 8) # PNG_SIGNATURE
       THEN Fail("InvalidSignature") /\ pos' = 8
       ELSE state' = "ReadingChunks" /\ err' = err /\ pos' = 8
    /\ UNCHANGED <<stream, overflow_checks, chunks, ihdr, bytes_per_pixel,
                   idat_data_compressed, zlib, idat_data, i, r, c,
                   filter_type, recon, image>>

\* one iteration of the loop of lines 368-377
ReadChunk ==
    /\ state = "ReadingChunks"
    /\ LET res == ChunkRead(stream, pos) IN
       /\ pos' = res.pos
       /\ IF res.err # "None"
          THEN Fail(res.err) /\ chunks' = chunks
          ELSE IF ~res.some
          THEN UNCHANGED <<state, err, chunks>>
          ELSE /\ chunks' = Append(chunks, res.chunk)
               /\ state' = IF res.chunk.kind = "Iend" THEN "Assembling" ELSE state
               /\ err' = err
    /\ UNCHANGED <<stream, overflow_checks, ihdr, bytes_per_pixel,
                   idat_data_compressed, zlib, idat_data, i, r, c,
                   filter_type, recon, image>>

\* from_chunks, lines 252-293: the head, then the decompressor
FromChunks ==
    /\ state = "Assembling"
    /\ LET h == FromChunksHead(chunks) IN
       /\ ihdr' = h.ihdr
       /\ bytes_per_pixel' = h.bpp
       /\ idat_data_compressed' = h.compressed
       /\ IF h.err # "None"
          THEN Fail(h.err) /\ UNCHANGED <<zlib, idat_data>>
          ELSE \E out \in InflateOutcomes(h.ihdr) :
                  /\ zlib' = [called |-> TRUE, res |-> out]
                  /\ idat_data' = out.data
                  /\ IF out.ok
                     THEN state' = AfterRow(h.ihdr, 0) /\ err' = err
                     ELSE Fail("Io")
    /\ UNCHANGED <<stream, overflow_checks, pos, chunks, i, r, c,
                   filter_type, recon, image>>

\* the locals of the defilter loop
Locals ==
    [state |-> state, err |-> err, i |-> i, r |-> r, c |-> c,
     filter_type |-> filter_type, recon |-> recon]

SetLocals(l) ==
    /\ state' = l.state
    /\ err' = l.err
    /\ i' = l.i
    /\ r' = l.r
    /\ c' = l.c
    /\ filter_type' = l.filter_type
    /\ recon' = l.recon

\* lines 296-298: the filter-type byte of row r, then the column loop's
\* test (an empty row ends at once)
DefilterRow ==
    /\ state = "DefilterRow"
    /\ SetLocals(RowStep(Locals, idat_data, ihdr, bytes_per_pixel))
    /\ UNCHANGED <<stream, overflow_checks, pos, chunks, ihdr, bytes_per_pixel,
                   idat_data_compressed, zlib, idat_data, image>>

\* lines 301-323: one byte of row r
DefilterByte ==
    /\ state = "DefilterByte"
    /\ SetLocals(ByteStep(Locals, idat_data, ihdr, bytes_per_pixel, overflow_checks))
    /\ UNCHANGED <<stream, overflow_checks, pos, chunks, ihdr, bytes_per_pixel,
                   idat_data_compressed, zlib, idat_data, image>>

\* lines 327-355: the pixel grid and the Image
Slice ==
    /\ state = "Slicing"
    /\ IF SlicePanics(recon, ihdr, bytes_per_pixel)
       THEN Panic /\ image' = image
       ELSE /\ state' = "Done"
            /\ err' = err
            /\ image' = MkImage(recon, ihdr, bytes_per_pixel)
    /\ UNCHANGED <<stream, overflow_checks, pos, chunks, ihdr, bytes_per_pixel,
                   idat_data_compressed, zlib, idat_data, i, r, c,
                   filter_type, recon>>

Next ==
    \/ ReadSignature
    \/ ReadChunk
    \/ FromChunks
    \/ DefilterRow
    \/ DefilterByte
    \/ Slice

Spec == Init /\ [][Next]_vars

(***************************************************************************)
(* Image::read as a function of the stream, the build and the              *)
(* decompressor: the same steps, run to the end.  z is the decompressor:   *)
(* z.res on the buffer z.arg (if z.called), z.other on every other buffer. *)
(***************************************************************************)
Inflate(z, buf) == IF z.called /\ buf = z.arg THEN z.res ELSE z.other

Result(st, e, img) == [state |-> st, err |-> e, image |-> img]

\* the loop of lines 368-377 from p bytes consumed
RECURSIVE ReadAll(_, _, _)
ReadAll(s, p, chs) ==
    LET res == ChunkRead(s, p) IN
    IF res.err # "None" THEN [err |-> res.err, chunks |-> chs]
    ELSE IF ~res.some THEN ReadAll(s, res.pos, chs)
    ELSE IF res.chunk.kind = "Iend"
    THEN [err |-> "None", chunks |-> Append(chs, res.chunk)]
    ELSE ReadAll(s, res.pos, Append(chs, res.chunk))

\* the loops of lines 296-325 from the locals l
RECURSIVE DefilterRun(_, _, _, _, _)
DefilterRun(l, data, hdr, bpp, checks) ==
    IF l.state = "DefilterRow"
    THEN DefilterRun(RowStep(l, data, hdr, bpp), data, hdr, bpp, checks)
    ELSE IF l.state = "DefilterByte"
    THEN DefilterRun(ByteStep(l, data, hdr, bpp, checks), data, hdr, bpp, checks)
    ELSE l

\* Image::from_chunks
FromChunksResult(chs, checks, z) ==
    LET h == FromChunksHead(chs) IN
    IF h.err # "None" THEN Result("Failed", h.err, NoImage)
    ELSE LET out == Inflate(z, h.compressed) IN
    IF ~out.ok THEN Result("Failed", "Io", NoImage)
    ELSE LET l == DefilterRun([state |-> AfterRow(h.ihdr, 0), err |-> "None",
                               i |-> 0, r |-> 0, c |-> 0, filter_type |-> 0,
                               recon |-> <<>>],
                              out.data, h.ihdr, h.bpp, checks) IN
    IF l.state # "Slicing" THEN Result(l.state, l.err, NoImage)
    ELSE IF SlicePanics(l.recon, h.ihdr, h.bpp) THEN Result("Panicked", "None", NoImage)
    ELSE Result("Done", "None", MkImage(l.recon, h.ihdr, h.bpp))

\* Image::read
ImageRead(s, checks, z) ==
    IF Len(s) < 8 THEN Result("Failed", "Io", NoImage)
    ELSE IF Take(s, 8) # PNG_SIGNATURE THEN Result("Failed", "InvalidSignature", NoImage)
    ELSE LET rd == ReadAll(s, 8, <<>>) IN
         IF rd.err # "None" THEN Result("Failed", rd.err, NoImage)
         ELSE FromChunksResult(rd.chunks, checks, z)

(***************************************************************************)
(* Vocabulary of the properties                                            *)
(***************************************************************************)
Running ==
    {"AwaitingSignature", "ReadingChunks", "Assembling", "DefilterRow",
     "DefilterByte", "Slicing"}

Stopped == state \notin Running

\* what the decode returned
Returned == Result(state, err, image)

\* the decompressor of this run, answering other on a buffer it was not asked
Decompressor(other) ==
    [called |-> zlib.called, arg |-> idat_data_compressed, res |-> zlib.res,
     other |-> other]

OtherOutcomes == {InflateFails, Inflated(<<0, 1, 2, 3>>), Inflated(<<>>)}

ValidSignature == Len(stream) >= 8 /\ Take(stream, 8) = PNG_SIGNATURE

\* the complete chunks of stream s from offset p on, by the wire format:
\* each with its type code, payload, stored CRC and extent in s
RECURSIVE FramesFrom(_, _)
FramesFrom(s, p) ==
    IF Len(s) < p + 12 THEN <<>>
    ELSE IF s[p + 1] >= 128 THEN <<>>
    ELSE LET n == FromBeBytes(SubSeq(s, p + 1, p + 4)) IN
         IF Len(s) < p + 12 + n THEN <<>>
         ELSE <<[type |-> SubSeq(s, p + 5, p + 8),
                 data |-> SubSeq(s, p + 9, p + 8 + n),
                 crc |-> SubSeq(s, p + 9 + n, p + 12 + n),
                 from |-> p, to |-> p + 12 + n]>>
              \o FramesFrom(s, p + 12 + n)

Frames == FramesFrom(stream, 8)

Recognised(f) == f.type \in {TypeIHDR, TypePLTE, TypeIDAT, TypeIEND}

LowercaseInitial(f) == f.type[1] \in 97..122

CrcMatches(f) == f.crc = CrcSum(f.type, f.data)

\* a chunk the decoder reads without an error
WellFormed(f) ==
    /\ CrcMatches(f)
    /\ Recognised(f) \/ LowercaseInitial(f)
    /\ f.type = TypeIHDR => Len(f.data) = 13
    /\ f.type = TypePLTE => Len(f.data) % 3 = 0 /\ Len(f.data) \in 3..768

\* chunk k of fs is read: the chunks before it are read without an error
\* and none of them is the terminator
IsRead(fs, k) ==
    \A j \in 1..(k - 1) : WellFormed(fs[j]) /\ fs[j].type # TypeIEND

\* the run and the function agree on the result
MachineIsImageRead ==
    Stopped => \A o \in OtherOutcomes :
                  Returned = ImageRead(stream, overflow_checks, Decompressor(o))

\* the chunks of fs that the decoder keeps (those of a recognised type)
RECURSIVE KeptCount(_)
KeptCount(fs) ==
    IF fs = <<>> THEN 0
    ELSE (IF Recognised(Head(fs)) THEN 1 ELSE 0) + KeptCount(Tail(fs))

BadCrcChunks ==
    {k \in 1..Len(Frames) : ~CrcMatches(Frames[k]) /\ IsRead(Frames, k)}

(***************************************************************************)
(* C1.  With a valid signature, the first chunk whose stored CRC differs   *)
(* from the CRC-32 of its type code and payload, every chunk before it     *)
(* being read without error, makes the decode fail with MismatchedCrc,     *)
(* whatever its type code: the decoder never gets past that chunk, keeps   *)
(* nothing of it, and no decode of such a stream assembles or returns      *)
(* anything else.                                                          *)
(***************************************************************************)
C1_CrcMismatchFails ==
    (state \notin {"AwaitingSignature", "DefilterRow", "DefilterByte", "Slicing"}
        /\ ValidSignature)
    => \A k \in BadCrcChunks :
          /\ pos <= Frames[k].to
          /\ Len(chunks) <= KeptCount(SubSeq(Frames, 1, k - 1))
          /\ state \in {"ReadingChunks", "Failed"}
          /\ state = "Failed" =>
                /\ err = "MismatchedCrc"
                /\ pos = Frames[k].to
                /\ Len(chunks) = KeptCount(SubSeq(Frames, 1, k - 1))

\* a decode that failed with MismatchedCrc on a damaged chunk of an
\* unrecognised ancillary type that follows two intact chunks
C1_Witness ==
    /\ state = "Failed"
    /\ err = "MismatchedCrc"
    /\ \E k \in BadCrcChunks :
          k = 3 /\ ~Recognised(Frames[k]) /\ LowercaseInitial(Frames[k])

(***************************************************************************)
(* C2.  As claimed: with a valid signature, if the first chunk after the   *)
(* signature is not IHDR the decode fails with InvalidStartingChunk,       *)
(* whatever chunks follow.                                                 *)
(***************************************************************************)
C2_Original ==
    (Stopped /\ ValidSignature /\ Len(Frames) >= 1 /\ Frames[1].type # TypeIHDR)
    => (state = "Failed" /\ err = "InvalidStartingChunk")

\* the index of the first terminator of fs, 0 if it has none
RECURSIVE FirstIend(_, _)
FirstIend(fs, k) ==
    IF k > Len(fs) THEN 0
    ELSE IF fs[k].type = TypeIEND THEN k
    ELSE FirstIend(fs, k + 1)

\* every chunk up to and including the first terminator is read without error
ReadsToTheEnd(fs) ==
    /\ FirstIend(fs, 1) > 0
    /\ \A k \in 1..FirstIend(fs, 1) : WellFormed(fs[k])

\* the first chunk of a recognised type
RECURSIVE FirstKept(_, _)
FirstKept(fs, k) ==
    IF k > Len(fs) THEN 0
    ELSE IF Recognised(fs[k]) THEN k
    ELSE FirstKept(fs, k + 1)

(***************************************************************************)
(* C2, amended.  With a valid signature and every chunk up to and          *)
(* including the first IEND read without error, if the first chunk of a    *)
(* recognised type (unrecognised ancillary chunks are dropped) is not      *)
(* IHDR, the decode fails with InvalidStartingChunk, without calling the   *)
(* decompressor.                                                           *)
(***************************************************************************)
C2_Amended ==
    (Stopped /\ ValidSignature /\ ReadsToTheEnd(Frames)
        /\ Frames[FirstKept(Frames, 1)].type # TypeIHDR)
    => (state = "Failed" /\ err = "InvalidStartingChunk" /\ ~zlib.called)

\* a decode that failed with InvalidStartingChunk on a stream whose first
\* recognised chunk is an IDAT, with a header after it
C2_Witness ==
    /\ state = "Failed"
    /\ err = "InvalidStartingChunk"
    /\ ReadsToTheEnd(Frames)
    /\ Frames[FirstKept(Frames, 1)].type = TypeIDAT
    /\ \E k \in 1..Len(Frames) : Frames[k].type = TypeIHDR /\ k < FirstIend(Frames, 1)

\* the chunks of the datastream: up to the first terminator, or all of
\* them if there is none
Datastream(fs) ==
    IF FirstIend(fs, 1) > 0 THEN SubSeq(fs, 1, FirstIend(fs, 1)) ELSE fs

\* stream s without the bytes from offset a to offset b
Without(s, a, b) == Take(s, a) \o Drop(s, b)

UnrecognisedChunks ==
    {k \in 1..Len(Datastream(Frames)) : ~Recognised(Frames[k])}

\* dropping chunk k leaves the result of the decode as it is
DroppingChangesNothing(k) ==
    \A o \in OtherOutcomes :
        Returned = ImageRead(Without(stream, Frames[k].from, Frames[k].to),
                             overflow_checks, Decompressor(o))

EveryCrcMatches == \A k \in 1..Len(Frames) : CrcMatches(Frames[k])

(***************************************************************************)
(* C6.  As claimed: in a stream with a valid CRC on every chunk, a chunk   *)
(* of an unrecognised type between the signature and the terminator is     *)
(* dropped if the first byte of its type code is a lowercase letter, the   *)
(* result being that of the stream without the chunk, and otherwise the    *)
(* decode fails with Unimplemented.                                        *)
(***************************************************************************)
C6_Original ==
    (Stopped /\ ValidSignature /\ EveryCrcMatches)
    => \A k \in UnrecognisedChunks :
          IF LowercaseInitial(Frames[k])
          THEN DroppingChangesNothing(k)
          ELSE state = "Failed" /\ err = "Unimplemented"

(***************************************************************************)
(* C6, amended.  In a stream with a valid CRC on every chunk, a chunk of   *)
(* an unrecognised type between the signature and the terminator is        *)
(* dropped if the first byte of its type code is a lowercase letter, the   *)
(* result (Image, error or panic) being that of the stream without the     *)
(* chunk; otherwise, if every chunk before it is read without error, the   *)
(* decode fails with Unimplemented.                                        *)
(***************************************************************************)
C6_Amended ==
    (Stopped /\ ValidSignature /\ EveryCrcMatches)
    => \A k \in UnrecognisedChunks :
          IF LowercaseInitial(Frames[k])
          THEN DroppingChangesNothing(k)
          ELSE IsRead(Frames, k) => (state = "Failed" /\ err = "Unimplemented")

\* a decode that returned an Image from a stream with an unrecognised
\* ancillary chunk between the header and the terminator
C6_Witness ==
    /\ state = "Done"
    /\ EveryCrcMatches
    /\ \E k \in UnrecognisedChunks :
          k > 1 /\ LowercaseInitial(Frames[k]) /\ Len(Frames[k].data) > 0

\* the payloads of the IDAT chunks of fs, in order
RECURSIVE IdatPayloads(_)
IdatPayloads(fs) ==
    IF fs = <<>> THEN <<>>
    ELSE IdatPayloads(SubSeq(fs, 1, Len(fs) - 1))
         \o (IF fs[Len(fs)].type = TypeIDAT THEN fs[Len(fs)].data ELSE <<>>)

SplitPairs ==
    {k \in 1..(Len(Frames) - 1) :
        /\ Frames[k].type = TypeIDAT /\ CrcMatches(Frames[k])
        /\ Frames[k + 1].type = TypeIDAT /\ CrcMatches(Frames[k + 1])}

\* the stream with chunks k and k + 1 replaced by one IDAT chunk
Joined(k) ==
    Take(stream, Frames[k].from)
    \o ToBeBytes(Len(Frames[k].data) + Len(Frames[k + 1].data))
    \o TypeIDAT \o Frames[k].data \o Frames[k + 1].data
    \o CrcSum(TypeIDAT, Frames[k].data \o Frames[k + 1].data)
    \o Drop(stream, Frames[k + 1].to)

(***************************************************************************)
(* C7.  The buffer handed to the decompressor is the concatenation, in     *)
(* stream order, of the payloads of all the IDAT chunks of the datastream, *)
(* and replacing two consecutive IDAT chunks by one IDAT chunk that        *)
(* carries their payloads joined leaves the result of the decode as it is. *)
(***************************************************************************)
C7_IdatConcatenation ==
    /\ zlib.called => idat_data_compressed = IdatPayloads(Datastream(Frames))
    /\ Stopped =>
          \A k \in SplitPairs : \A o \in OtherOutcomes :
              Returned = ImageRead(Joined(k), overflow_checks, Decompressor(o))

\* a decode that returned an Image from a stream that carries its
\* compressed data in two consecutive non-empty IDAT chunks
C7_Witness ==
    /\ state = "Done"
    /\ zlib.called
    /\ \E k \in SplitPairs :
          /\ Frames[k].data # <<>> /\ Frames[k + 1].data # <<>>
          /\ Frames[k].data # Frames[k + 1].data

(***************************************************************************)
(* C8.  As claimed: an input whose first 8 bytes are not the signature,    *)
(* altered or cut short of 8 bytes, fails with InvalidSignature before any *)
(* chunk is read.                                                          *)
(***************************************************************************)
C8_Original ==
    (Stopped /\ ~ValidSignature)
    => (state = "Failed" /\ err = "InvalidSignature" /\ chunks = <<>>)

(***************************************************************************)
(* C8, amended.  An input of at least 8 bytes whose first 8 bytes are not  *)
(* the signature fails with InvalidSignature, and an input of fewer than   *)
(* 8 bytes fails with Io; in both cases before any chunk is read.          *)
(***************************************************************************)
C8_Amended ==
    ~ValidSignature
    => /\ state \in {"AwaitingSignature", "Failed"}
       /\ chunks = <<>>
       /\ pos <= 8
       /\ state = "Failed" =>
             err = (IF Len(stream) < 8 THEN "Io" ELSE "InvalidSignature")

\* a decode that failed with InvalidSignature on a complete file whose
\* signature differs in its last byte only
C8_Witness ==
    /\ state = "Failed"
    /\ err = "InvalidSignature"
    /\ Len(stream) > 8
    /\ Take(stream, 7) = Take(PNG_SIGNATURE, 7)

(***************************************************************************)
(* The scanlines as the inflated data holds them, and the neighbours of    *)
(* a reconstructed byte, by position: byte n of recon (from 1) is column   *)
(* ColOf(n) of row RowOf(n).                                               *)
(***************************************************************************)
Stride == ihdr.width * bytes_per_pixel

RowOf(n) == (n - 1) \div Stride
ColOf(n) == (n - 1) % Stride

\* the filter-type byte of a row and the filtered byte at a position
FilterOfRow(row) == idat_data[row * (Stride + 1) + 1]
FilteredAt(n) == idat_data[RowOf(n) * (Stride + 1) + 1 + ColOf(n) + 1]

LeftOf(n) == IF ColOf(n) >= bytes_per_pixel THEN recon[n - bytes_per_pixel] ELSE 0
AboveOf(n) == IF RowOf(n) > 0 THEN recon[n - Stride] ELSE 0
DiagOf(n) ==
    IF RowOf(n) > 0 /\ ColOf(n) >= bytes_per_pixel
    THEN recon[n - Stride - bytes_per_pixel] ELSE 0

\* the rows whose filter-type byte is in the inflated data and is not a
\* filter type
BadFilterRows ==
    {row \in 0..(ihdr.height - 1) :
        /\ row * (Stride + 1) < Len(idat_data)
        /\ FilterOfRow(row) \notin 0..4}

(***************************************************************************)
(* C3.  As claimed: no Image is returned for a header whose bit depth is   *)
(* not 8 or whose interlace method is not 0.                               *)
(***************************************************************************)
C3_Claim ==
    state = "Done" => (ihdr.bit_depth = 8 /\ ihdr.interlace_method = 0)

(***************************************************************************)
(* C4.  As claimed: a decode ends in Done or in Failed with one of the     *)
(* nine error kinds, and in nothing else.                                  *)
(***************************************************************************)
C4_Claim ==
    Stopped => (state = "Done" \/ (state = "Failed" /\ err \in ErrorKinds))

(***************************************************************************)
(* C5.  As claimed: once the data is inflated, if the filter-type byte of  *)
(* some row is not in 0..4 the decode fails with InvalidFilterType and     *)
(* returns no Image, for every width and height, and no byte of the first  *)
(* such row is reconstructed.                                              *)
(***************************************************************************)
C5_Claim ==
    (Stopped /\ zlib.called /\ zlib.res.ok /\ BadFilterRows # {})
    => /\ state = "Failed"
       /\ err = "InvalidFilterType"
       /\ image = NoImage
       /\ \A row \in BadFilterRows : Len(recon) <= row * Stride

(***************************************************************************)
(* C9.  As claimed: every byte reconstructed in a row of filter type 3     *)
(* (Average) is (x + floor((a + b) / 2)) mod 256, the sum a + b not        *)
(* wrapped, for the filtered byte x, the left neighbour a and the          *)
(* neighbour above b.                                                      *)
(***************************************************************************)
C9_Claim ==
    \A n \in 1..Len(recon) :
        FilterOfRow(RowOf(n)) = FILTER_AVG
        => recon[n] = (FilteredAt(n) + ((LeftOf(n) + AboveOf(n)) \div 2)) % 256

\* the Paeth predictor as the claim words it
PaethOf(a, b, cd) ==
    LET p == (a + b + 256 - cd) % 256
        da == IF p >= a THEN p - a ELSE a - p
        db == IF p >= b THEN p - b ELSE b - p
        dc == IF p >= cd THEN p - cd ELSE cd - p
    IN  IF da <= db /\ da <= dc THEN a
        ELSE IF db <= dc THEN b
        ELSE cd

(***************************************************************************)
(* C10.  Every byte reconstructed in a row of filter type 4 (Paeth) is     *)
(* (x + pred) mod 256, where x is the filtered byte, a, b and c_diag the   *)
(* reconstructed neighbours to the left, above and above-left (0 where     *)
(* there is none), p = (a + b - c_diag) mod 256 and pred the one of a, b,  *)
(* c_diag nearest to p, ties going to a, then b, then c_diag.              *)
(***************************************************************************)
C10_Paeth ==
    \A n \in 1..Len(recon) :
        FilterOfRow(RowOf(n)) = FILTER_PAETH
        => recon[n] = (FilteredAt(n) + PaethOf(LeftOf(n), AboveOf(n), DiagOf(n))) % 256

\* an Image returned with a Paeth byte that has all three neighbours, for
\* which a + b - c_diag leaves 0..255 and x + pred exceeds 255
C10_Witness ==
    /\ state = "Done"
    /\ \E n \in 1..Len(recon) :
          /\ FilterOfRow(RowOf(n)) = FILTER_PAETH
          /\ RowOf(n) > 0 /\ ColOf(n) >= bytes_per_pixel
          /\ LeftOf(n) + AboveOf(n) - DiagOf(n) \notin 0..255
          /\ FilteredAt(n) + PaethOf(LeftOf(n), AboveOf(n), DiagOf(n)) > 255
          /\ PaethOf(LeftOf(n), AboveOf(n), DiagOf(n)) = DiagOf(n)
          /\ DiagOf(n) \notin {LeftOf(n), AboveOf(n)}

TypeOK ==
    /\ state \in {"AwaitingSignature", "ReadingChunks", "Assembling",
                  "DefilterRow", "DefilterByte", "Slicing",
                  "Done", "Failed", "Panicked"}
    /\ err \in ErrorKinds \cup {"None"}
    /\ \A k \in 1..Len(recon) : recon[k] \in Byte
====
